---- MODULE Spec2Model ----
(***************************************************************************)
(* A model of wecsam/tapas: the catalog cache (YouTubeAPIClient.VideoGetter *)
(* and concat_page_items in tapas/youtube.py), the clip derivation         *)
(* (read_clips in tapas/clips_csv.py) and the publish reconciler           *)
(* (publish_videos in publish_videos.py).                                  *)
(*                                                                         *)
(* Text (titles, names, file stems) is a sequence of one-character         *)
(* strings, so that building a title from a file name is computed.         *)
(* A Python None / absent value of an optional object is <<>> and a        *)
(* present value v is <<v>>.  A dict is a function on the set of its keys. *)
(* An OrderedDict is a sequence of <<key, value>> pairs with unique keys.  *)
(***************************************************************************)
EXTENDS Integers, Sequences, FiniteSets, TLC

VARIABLES
    remote,                         \* the platform's videos: id -> entry
    cache,                          \* YouTubeAPIClient.cache["videos"]: id -> entry
    initial_cache,                  \* the cache when get_videos was called (history)
    input_ids,                      \* the ids given to get_videos (history)
    ids_to_get,                     \* VideoGetter._ids_to_get: the ids not consumed yet
    videos_to_return_values_iter,   \* VideoGetter._videos_to_return_values_iter
    yielded,                        \* the entries __next__ has returned (history)
    fetches,                        \* the id batch of every videos().list fetch (history)
    vg_status,                      \* "active", "stopped" (StopIteration), "raised" (ValueError)
    last_call,                      \* what the last __next__ call did (history)
    this_row,                       \* read_clips: the row read last (this_row of the next pair)
    rows_read,                      \* read_clips: how many rows the reader has supplied
    clips,                          \* read_clips: the Clips yielded so far
    clip_rows,                      \* the position in the log of the row behind each Clip (history)
    rc_status,                      \* "reading", "exhausted" (end of the log), "halted" (break)
    last_pair,                      \* the outcome of the last pair of rows (history)
    cache_file,                     \* youtube-cache.json: the cache as last flushed
    uploads_listing,                \* the video ids of the scanned playlist, in listing order
    target_playlist,                \* the video ids inserted into the target playlist
    params,                         \* the arguments of publish_videos
    pub_clips,                      \* publish_videos: clips, expected title -> Clip (OrderedDict)
    uploaded,                       \* publish_videos: uploaded, title -> video id
    walk_index,                     \* the position of the walk in pub_clips
    pc,                             \* "start", "walk", "done" (returned), "crashed" (exception)
    run,                            \* the number of the publish_videos pass
    calls,                          \* the mutating calls of this pass (history)
    past_calls,                     \* the mutating calls of the earlier passes (history)
    anomaly,                        \* whether a call has failed or answered without id (history)
    last_step,                      \* what the last iteration of the walk did (history)
    pages,                          \* the paged remote: page token -> response (0 is no token)
    page_token,                     \* concat_page_items: next_page_token (0 is None)
    page_items,                     \* the items concat_page_items has yielded (history)
    requests,                       \* the page token of every request made (history)
    cp_status                       \* "running", "returned"

gvars == <<remote, cache, initial_cache, input_ids, ids_to_get, videos_to_return_values_iter,
           yielded, fetches, vg_status, last_call>>

cvars == <<this_row, rows_read, clips, clip_rows, rc_status, last_pair>>

pvars == <<cache_file, uploads_listing, target_playlist, params, pub_clips, uploaded,
           walk_index, pc, run, calls, past_calls, anomaly, last_step>>

page_vars == <<pages, page_token, page_items, requests, cp_status>>

vars == <<gvars, cvars, pvars, page_vars>>

----------------------------------------------------------------------------
(* Bounds of the model *)

\* the longest id sequence over SmallIds given to get_videos
MaxInput == 4

\* the largest page token of the paged remote
MaxPageToken == 2

\* the longest edit log read_clips is given
MaxRows == 3

\* the largest number of Clips in the edit log publish_videos is given
MaxClips == 2

\* the number of publish_videos passes run in succession
MaxRuns == 2

\* the ids of the exhaustively enumerated cases
SmallIds == {1, 2}

\* the lengths of the long runs <<1, 2, ..., n>> that fill whole batches
LongLens == {49, 50, 51, 100, 120}

LongIds == 1..120

----------------------------------------------------------------------------
(* Values *)

None == <<>>
Some(v) == <<v>>

\* processingDetails.processingStatus; "" is a missing status
Statuses == {"", "processing", "succeeded", "failed"}

Entry(id, title, status) == [id |-> id, title |-> title, status |-> status]

\* the value a call returns when it returns no video
NoVideo == Entry(0, <<>>, "")

RECURSIVE SeqsUpTo(_, _)
SeqsUpTo(S, n) ==
    IF n = 0 THEN {<<>>}
    ELSE LET shorter == SeqsUpTo(S, n - 1)
         IN  shorter \cup {Append(s, x) : s \in {t \in shorter : Len(t) = n - 1}, x \in S}

Range(s) == {s[i] : i \in 1..Len(s)}

----------------------------------------------------------------------------
(* tapas/youtube.py *)

\* walk_dict(video, "processingDetails", "processingStatus") of cache.get(id):
\* None ("" here) when the id is not cached or the entry has no status
walk_dict(c, id) == IF id \in DOMAIN c THEN c[id].status ELSE ""

\* OrderedDict: d[k] = v keeps the position of a key that is already there
OdHas(od, k) == \E i \in 1..Len(od) : od[i][1] = k

OdIndex(od, k) == CHOOSE i \in 1..Len(od) : od[i][1] = k

OdSet(od, k, v) ==
    IF OdHas(od, k)
    THEN SubSeq(od, 1, OdIndex(od, k) - 1) \o <<<<k, v>>>>
         \o SubSeq(od, OdIndex(od, k) + 1, Len(od))
    ELSE Append(od, <<k, v>>)

OdValues(od) == [i \in 1..Len(od) |-> od[i][2]]

\* dict: d[k] = v
DictSet(d, k, v) == (k :> v) @@ d

\* the request size limit of videos().list
BatchLimit == 50

\* "processing_status and processing_status != 'processing'"
IsTerminalMutant(processing_status) == processing_status = "succeeded"

IsTerminal(processing_status) == processing_status # "" /\ processing_status # "processing"

\* the negation of the loop condition "len(ids_to_get_from_api) != 50"
BatchFullMutant(ids_to_get_from_api) == Len(ids_to_get_from_api) = BatchLimit + 1

BatchFull(ids_to_get_from_api) == Len(ids_to_get_from_api) = BatchLimit

\* the loop of __next__ that consumes ids until the batch holds BatchLimit ids or
\* the ids run out; a cached hit met while the batch is empty is returned at once.
\* (Each iteration binds the loop variables as values: x \in {e} evaluates e once.)
RECURSIVE Accumulate(_, _, _, _)
Accumulate(ids, c, videos_to_return, ids_to_get_from_api) ==
    IF BatchFull(ids_to_get_from_api) \/ ids = <<>>
    THEN [kind |-> "batch", video |-> NoVideo, ids |-> ids,
          videos_to_return |-> videos_to_return,
          ids_to_get_from_api |-> ids_to_get_from_api]
    ELSE LET id == Head(ids)
             processing_status == walk_dict(c, id)
         IN  IF IsTerminal(processing_status)
             THEN IF ids_to_get_from_api = <<>>
                  THEN [kind |-> "return", video |-> c[id], ids |-> Tail(ids),
                        videos_to_return |-> videos_to_return,
                        ids_to_get_from_api |-> ids_to_get_from_api]
                  ELSE CHOOSE res \in
                           {Accumulate(rest, c, vtr, ids_to_get_from_api) :
                                rest \in {Tail(ids)},
                                vtr \in {OdSet(videos_to_return, id, Some(c[id]))}} : TRUE
             ELSE CHOOSE res \in
                      {Accumulate(rest, c, vtr, batch) :
                           rest \in {Tail(ids)},
                           vtr \in {OdSet(videos_to_return, id, None)},
                           batch \in {Append(ids_to_get_from_api, id)}} : TRUE

\* concat_page_items: get_request maps a page token (0 is no token) to a page
RECURSIVE concat_page_items(_, _)
concat_page_items(get_request, next_page_token) ==
    LET result == get_request[next_page_token]
    IN  result.items \o
        (IF result.nextPageToken = 0 THEN <<>>
         ELSE concat_page_items(get_request, result.nextPageToken))

\* the ids of a request without repetitions, in the order of first occurrence
RECURSIVE DistinctFrom(_, _)
DistinctFrom(s, seen) ==
    IF s = <<>> THEN seen
    ELSE CHOOSE res \in
             {DistinctFrom(rest, nxt) :
                  rest \in {Tail(s)},
                  nxt \in {IF Head(s) \in Range(seen) THEN seen ELSE Append(seen, Head(s))}} : TRUE

Distinct(s) == DistinctFrom(s, <<>>)

SelectExisting(ids, r) == SelectSeq(ids, LAMBDA id : id \in DOMAIN r)

EntriesOf(ids, r) == [i \in 1..Len(ids) |-> r[ids[i]]]

\* client.videos().list(id=ids_joined, maxResults=50): the videos that exist among
\* the requested ids; at most 50 ids are requested, so they come on one page
videos_list(ids_to_get_from_api, r) ==
    [t \in {0} |-> [items |-> EntriesOf(SelectExisting(Distinct(ids_to_get_from_api), r), r),
                    nextPageToken |-> 0]]

\* (mutant) the fetched videos are handed to the caller but not written to the cache
RECURSIVE MergeFetchedMutant(_, _, _)
MergeFetchedMutant(items, c, videos_to_return) ==
    IF items = <<>> THEN [cache |-> c, videos_to_return |-> videos_to_return]
    ELSE LET video == Head(items)
         IN  CHOOSE res \in
                 {MergeFetchedMutant(rest, c, vtr) :
                      rest \in {Tail(items)},
                      vtr \in {IF OdHas(videos_to_return, video.id)
                               THEN OdSet(videos_to_return, video.id, Some(video))
                               ELSE videos_to_return}} : TRUE

\* the loop over the fetched videos: cache[id] = video, and
\* videos_to_return[id] = video when the id is awaited
RECURSIVE MergeFetched(_, _, _)
MergeFetched(items, c, videos_to_return) ==
    IF items = <<>> THEN [cache |-> c, videos_to_return |-> videos_to_return]
    ELSE LET video == Head(items)
         IN  CHOOSE res \in
                 {MergeFetched(rest, c2, vtr) :
                      rest \in {Tail(items)},
                      c2 \in {DictSet(c, video.id, video)},
                      vtr \in {IF OdHas(videos_to_return, video.id)
                               THEN OdSet(videos_to_return, video.id, Some(video))
                               ELSE videos_to_return}} : TRUE

\* "for id, video in videos_to_return.items(): if video is None: raise ValueError"
HasUnknownVideoIdMutant(videos_to_return) ==
    videos_to_return # <<>> /\ videos_to_return[1][2] = None

HasUnknownVideoId(videos_to_return) ==
    \E i \in 1..Len(videos_to_return) : videos_to_return[i][2] = None

\* iter(videos_to_return.values()): the buffered values as the caller receives them
\* (a None left in the buffer would be handed out as it is: NoVideo)
Unwrap(values) == [i \in 1..Len(values) |-> IF values[i] = None THEN NoVideo ELSE values[i][1]]

\* the part of __next__ after the buffered iterator is found empty
NextFromIds(ids, c, r) ==
    LET acc == Accumulate(ids, c, <<>>, <<>>)
    IN  IF acc.kind = "return"
        THEN [kind |-> "video", video |-> acc.video, ids |-> acc.ids, iter |-> None,
              cache |-> c, fetched |-> None]
        ELSE IF acc.videos_to_return = <<>>
        THEN [kind |-> "stop", video |-> NoVideo, ids |-> acc.ids, iter |-> None,
              cache |-> c, fetched |-> None]
        ELSE IF acc.ids_to_get_from_api = <<>>
        THEN LET values == Unwrap(OdValues(acc.videos_to_return))
             IN  [kind |-> "video", video |-> Head(values), ids |-> acc.ids,
                  iter |-> Some(Tail(values)), cache |-> c, fetched |-> None]
        ELSE LET items == concat_page_items(videos_list(acc.ids_to_get_from_api, r), 0)
                 merged == MergeFetched(items, c, acc.videos_to_return)
             IN  IF HasUnknownVideoId(merged.videos_to_return)
                 THEN [kind |-> "error", video |-> NoVideo, ids |-> acc.ids, iter |-> None,
                       cache |-> merged.cache, fetched |-> Some(acc.ids_to_get_from_api)]
                 ELSE LET values == Unwrap(OdValues(merged.videos_to_return))
                      IN  [kind |-> "video", video |-> Head(values), ids |-> acc.ids,
                           iter |-> Some(Tail(values)), cache |-> merged.cache,
                           fetched |-> Some(acc.ids_to_get_from_api)]

\* VideoGetter.__next__: one call, from the getter's fields, the cache and the remote
VideoGetterNext(ids, iter, c, r) ==
    IF iter # None /\ iter[1] # <<>>
    THEN [kind |-> "video", video |-> Head(iter[1]), ids |-> ids,
          iter |-> Some(Tail(iter[1])), cache |-> c, fetched |-> None]
    ELSE NextFromIds(ids, c, r)

----------------------------------------------------------------------------
(* tapas/clips_csv.py *)

\* A float: a number of seconds kept in milliseconds, or NaN (float("nan") parses)
Float(ms) == [nan |-> FALSE, ms |-> ms]
NaN == [nan |-> TRUE, ms |-> 0]

\* "inpoint >= outpoint" on floats: every comparison with NaN is false
FloatGeReversed(x, y) == ~x.nan /\ ~y.nan /\ x.ms <= y.ms

FloatGe(x, y) == ~x.nan /\ ~y.nan /\ x.ms >= y.ms

FloatLt(x, y) == ~x.nan /\ ~y.nan /\ x.ms < y.ms

\* float(s): the strings of the model that Python reads as a float
PyFloat(s) ==
    CASE s = "5" -> Some(Float(5000))
      [] s = "20" -> Some(Float(20000))
      [] s = "30" -> Some(Float(30000))
      [] s = "nan" -> Some(NaN)
      [] OTHER -> None

\* pytimeparse.parse(s): a duration expression in seconds, or None
PyTimeParse(s) ==
    CASE s = "0:10" -> Some(Float(10000))
      [] s = "5" -> Some(Float(5000))
      [] s = "20" -> Some(Float(20000))
      [] s = "30" -> Some(Float(30000))
      [] OTHER -> None

\* parse_timecode: float(s), and on ValueError pytimeparse.parse(s)
parse_timecode(s) == IF PyFloat(s) # None THEN PyFloat(s) ELSE PyTimeParse(s)

\* a dict of csv.DictReader; NoKey marks a column the log does not have
NoKey == "<no key>"

Row(skip, file, inpoint, name, description) ==
    [Skip |-> skip, File |-> file, Inpoint |-> inpoint, Name |-> name,
     Description |-> description]

Clip(file, inpoint, outpoint, name, description) ==
    [file |-> file, inpoint |-> inpoint, outpoint |-> outpoint, name |-> name,
     description |-> description]

NoClip == Clip(<<>>, NaN, NaN, <<>>, "")

Outcome(kind, error, clip) == [kind |-> kind, error |-> error, clip |-> clip]

\* the test "if this_row.get('Skip'): continue"
SkipSetMutant(row) == FALSE

SkipSet(row) == row.Skip # ""

\* the test "if file != next_row.get('File'): continue"
OtherFileMutant(file, next_row) == FALSE

OtherFile(file, next_row) == file # next_row.File

\* what "break" does to the loop
AfterErrorMutant == "reading"

AfterError == "halted"

\* the body of the loop with the Inpoint of this_row examined ahead of the File
\* comparison
ReadPairMutant(this, next_row) ==
    IF SkipSet(this) THEN Outcome("skip", "", NoClip)
    ELSE IF this.File = <<>> THEN Outcome("error", "File missing", NoClip)
    ELSE IF this.Inpoint = "" THEN Outcome("error", "Inpoint missing", NoClip)
    ELSE IF parse_timecode(this.Inpoint) = None
         THEN Outcome("error", "invalid format for Inpoint", NoClip)
    ELSE IF OtherFile(this.File, next_row) THEN Outcome("other file", "", NoClip)
    ELSE IF next_row.Inpoint = "" THEN Outcome("error", "next row's Inpoint missing", NoClip)
    ELSE IF parse_timecode(next_row.Inpoint) = None
         THEN Outcome("error", "invalid format for Inpoint on next row", NoClip)
    ELSE IF FloatGe(parse_timecode(this.Inpoint)[1], parse_timecode(next_row.Inpoint)[1])
         THEN Outcome("error", "Inpoint is not less than next row's Inpoint", NoClip)
    ELSE IF this.Name = <<>> THEN Outcome("error", "Name missing", NoClip)
    ELSE Outcome("clip", "",
                 Clip(this.File, parse_timecode(this.Inpoint)[1],
                      parse_timecode(next_row.Inpoint)[1], this.Name,
                      IF this.Description = NoKey THEN "" ELSE this.Description))

\* the body of the loop of read_clips for one pair (this_row, next_row)
ReadPair(this, next_row) ==
    IF SkipSet(this) THEN Outcome("skip", "", NoClip)
    ELSE IF this.File = <<>> THEN Outcome("error", "File missing", NoClip)
    ELSE IF OtherFile(this.File, next_row) THEN Outcome("other file", "", NoClip)
    ELSE IF this.Inpoint = "" THEN Outcome("error", "Inpoint missing", NoClip)
    ELSE IF parse_timecode(this.Inpoint) = None
         THEN Outcome("error", "invalid format for Inpoint", NoClip)
    ELSE IF next_row.Inpoint = "" THEN Outcome("error", "next row's Inpoint missing", NoClip)
    ELSE IF parse_timecode(next_row.Inpoint) = None
         THEN Outcome("error", "invalid format for Inpoint on next row", NoClip)
    ELSE IF FloatGe(parse_timecode(this.Inpoint)[1], parse_timecode(next_row.Inpoint)[1])
         THEN Outcome("error", "Inpoint is not less than next row's Inpoint", NoClip)
    ELSE IF this.Name = <<>> THEN Outcome("error", "Name missing", NoClip)
    ELSE Outcome("clip", "",
                 Clip(this.File, parse_timecode(this.Inpoint)[1],
                      parse_timecode(next_row.Inpoint)[1], this.Name,
                      IF this.Description = NoKey THEN "" ELSE this.Description))

\* read_clips over a whole log: the Clips yielded until the rows end or a row halts it
RECURSIVE ReadClipsFrom(_, _, _)
ReadClipsFrom(rows, i, out) ==
    IF i >= Len(rows) THEN out
    ELSE LET outcome == ReadPair(rows[i], rows[i + 1])
         IN  IF outcome.kind = "error" THEN out
             ELSE ReadClipsFrom(rows, i + 1,
                                IF outcome.kind = "clip" THEN Append(out, outcome.clip)
                                ELSE out)

read_clips(rows) == ReadClipsFrom(rows, 1, <<>>)

\* pathlib.PurePath(file).stem, for a file name without directories
LastDot(file) ==
    IF \E i \in 1..Len(file) : file[i] = "."
    THEN CHOOSE i \in 1..Len(file) :
             file[i] = "." /\ \A j \in (i + 1)..Len(file) : file[j] # "."
    ELSE 0

Stem(file) ==
    IF LastDot(file) > 1 /\ LastDot(file) < Len(file)
    THEN SubSeq(file, 1, LastDot(file) - 1)
    ELSE file

\* CHARS_THAT_YOUTUBE_REMOVES.sub(" ", stem)
RECURSIVE CleanStem(_)
CleanStem(stem) ==
    IF stem = <<>> THEN <<>>
    ELSE <<IF Head(stem) \in {".", "-", "_"} THEN " " ELSE Head(stem)>> \o CleanStem(Tail(stem))

DigitChars == <<"0", "1", "2", "3", "4", "5", "6", "7", "8", "9">>

\* str(n) of an int
RECURSIVE IntToText(_)
IntToText(n) ==
    IF n < 0 THEN <<"-">> \o IntToText(0 - n)
    ELSE IF n < 10 THEN <<DigitChars[n + 1]>>
    ELSE IntToText(n \div 10) \o <<DigitChars[(n % 10) + 1]>>

\* int(round(seconds * 100)): Python rounds a half to the even neighbour
RoundHundredths(ms) ==
    LET q == ms \div 10
        r == ms % 10
    IN  IF r < 5 THEN q
        ELSE IF r > 5 THEN q + 1
        ELSE IF q % 2 = 0 THEN q ELSE q + 1

\* Clip._format_seconds (of a float that is not NaN)
format_seconds(seconds) == IntToText(RoundHundredths(seconds.ms))

\* Clip.get_expected_youtube_title
get_expected_youtube_title(clip) ==
    CleanStem(Stem(clip.file)) \o <<" ">> \o format_seconds(clip.inpoint)
    \o <<" ">> \o format_seconds(clip.outpoint)

----------------------------------------------------------------------------
(* read_clips driven row by row *)

\* the rows an edit log is made of
Rows ==
    {Row(skip, file, inpoint, name, description) :
        skip \in {"", "y"},
        file \in {<<>>, <<"a">>, <<"b">>},
        inpoint \in {"", "x", "5", "0:10", "20", "nan"},
        name \in {<<>>, <<"n">>},
        description \in {NoKey, "d"}}

NoPair == [kind |-> "none", error |-> ""]

ClipsInit ==
    /\ this_row = None
    /\ rows_read = 0
    /\ clips = <<>>
    /\ clip_rows = <<>>
    /\ rc_status = "reading"
    /\ last_pair = NoPair

\* itertools.pairwise pulls the first row of the log
ReadFirstRow ==
    /\ rc_status = "reading"
    /\ rows_read = 0
    /\ rows_read < MaxRows
    /\ \E row \in Rows : this_row' = Some(row)
    /\ rows_read' = 1
    /\ UNCHANGED <<clips, clip_rows, rc_status, last_pair>>
    /\ UNCHANGED <<gvars, pvars, page_vars>>

\* one iteration of the loop: the next row is pulled and the pair is examined
ReadNextRow ==
    /\ rc_status = "reading"
    /\ rows_read >= 1
    /\ rows_read < MaxRows
    /\ \E next_row \in Rows :
          LET outcome == ReadPair(this_row[1], next_row)
          IN  /\ this_row' = Some(next_row)
              /\ clips' = IF outcome.kind = "clip" THEN Append(clips, outcome.clip)
                          ELSE clips
              /\ clip_rows' = IF outcome.kind = "clip" THEN Append(clip_rows, rows_read)
                              ELSE clip_rows
              /\ rc_status' = IF outcome.kind = "error" THEN AfterError ELSE "reading"
              /\ last_pair' = [kind |-> outcome.kind, error |-> outcome.error]
    /\ rows_read' = rows_read + 1
    /\ UNCHANGED <<gvars, pvars, page_vars>>

\* the log has no further row: the loop ends
EndOfLog ==
    /\ rc_status = "reading"
    /\ rc_status' = "exhausted"
    /\ UNCHANGED <<this_row, rows_read, clips, clip_rows, last_pair>>
    /\ UNCHANGED <<gvars, pvars, page_vars>>

ClipsNext == ReadFirstRow \/ ReadNextRow \/ EndOfLog

----------------------------------------------------------------------------
(* The catalog cache driven call by call *)

\* the cache entry and the remote entry of one id differ in their titles, so that
\* a fetched entry can be told from a cached one
CachedEntries(id) == {Entry(id, <<"c">>, s) : s \in Statuses}
RemoteEntries(id) == {Entry(id, <<"r">>, s) : s \in {"processing", "succeeded"}}

PartialMaps(S, Values(_)) ==
    UNION {{f \in [D -> UNION {Values(x) : x \in D}] : \A x \in D : f[x] \in Values(x)}
           : D \in SUBSET S}

GetterInit ==
    /\ \/ /\ input_ids \in SeqsUpTo(SmallIds, MaxInput)
          /\ cache \in PartialMaps(SmallIds, CachedEntries)
          /\ remote \in PartialMaps(SmallIds, RemoteEntries)
       \/ /\ \E n \in LongLens : input_ids = [i \in 1..n |-> i]
          /\ cache \in {[i \in D |-> Entry(i, <<"c">>, "processing")] : D \in {{}, {1, 50}}}
          /\ remote = [i \in LongIds |-> Entry(i, <<"r">>, "succeeded")]
    /\ initial_cache = cache
    /\ ids_to_get = input_ids
    /\ videos_to_return_values_iter = None
    /\ yielded = <<>>
    /\ fetches = <<>>
    /\ vg_status = "active"
    /\ last_call = [kind |-> "none", fetched |-> None, yielded_before |-> 0]

\* one call of __next__ by the consumer of the getter
Next__ ==
    /\ vg_status = "active"
    /\ LET res == VideoGetterNext(ids_to_get, videos_to_return_values_iter, cache, remote)
       IN  /\ ids_to_get' = res.ids
           /\ videos_to_return_values_iter' = res.iter
           /\ cache' = res.cache
           /\ fetches' = IF res.fetched = None THEN fetches
                         ELSE Append(fetches, res.fetched[1])
           /\ yielded' = IF res.kind = "video" THEN Append(yielded, res.video) ELSE yielded
           /\ vg_status' = CASE res.kind = "video" -> "active"
                             [] res.kind = "stop" -> "stopped"
                             [] OTHER -> "raised"
           /\ last_call' = [kind |-> res.kind, fetched |-> res.fetched,
                            yielded_before |-> Len(yielded)]
    /\ UNCHANGED <<remote, initial_cache, input_ids>>
    /\ UNCHANGED <<cvars, pvars, page_vars>>

GetterNext == Next__

----------------------------------------------------------------------------
(* tapas/youtube.py: the calls publish_videos makes *)

\* "if limit is None: limit = -1"
NoLimit == -1

\* client.playlistItems().list(playlistId=..., maxResults=50): the items of the
\* playlist (their contentDetails.videoId); the playlists of the model fit one page
playlistItems_list(listing) == [t \in {0} |-> [items |-> listing, nextPageToken |-> 0]]

\* the loop with the test of the limit behind the yield:
\* "limit -= 1; yield video; if limit == 0: break"
RECURSIVE PullVideosMutant(_, _, _, _, _, _)
PullVideosMutant(ids, iter, c, r, limit, out) ==
    LET res == VideoGetterNext(ids, iter, c, r)
    IN  IF res.kind = "stop" THEN [videos |-> out, cache |-> res.cache, raised |-> FALSE]
        ELSE IF res.kind = "error"
        THEN [videos |-> out, cache |-> res.cache, raised |-> TRUE]
        ELSE IF limit = 1
        THEN [videos |-> Append(out, res.video), cache |-> res.cache, raised |-> FALSE]
        ELSE CHOOSE result \in
                 {PullVideosMutant(ids2, iter2, c2, r, limit - 1, out2) :
                      ids2 \in {res.ids}, iter2 \in {res.iter}, c2 \in {res.cache},
                      out2 \in {Append(out, res.video)}} : TRUE

\* the loop of get_playlist_videos over get_videos(...): a video is pulled from the
\* getter, and then "if limit == 0: break; limit -= 1; yield video"
RECURSIVE PullVideos(_, _, _, _, _, _)
PullVideos(ids, iter, c, r, limit, out) ==
    LET res == VideoGetterNext(ids, iter, c, r)
    IN  IF res.kind = "stop" THEN [videos |-> out, cache |-> res.cache, raised |-> FALSE]
        ELSE IF res.kind = "error"
        THEN [videos |-> out, cache |-> res.cache, raised |-> TRUE]
        ELSE IF limit = 0 THEN [videos |-> out, cache |-> res.cache, raised |-> FALSE]
        ELSE CHOOSE result \in
                 {PullVideos(ids2, iter2, c2, r, limit - 1, out2) :
                      ids2 \in {res.ids}, iter2 \in {res.iter}, c2 \in {res.cache},
                      out2 \in {Append(out, res.video)}} : TRUE

\* get_playlist_videos(playlist_id, limit), consumed to its end; limit is None or Some(n)
get_playlist_videos(listing, limit, c, r) ==
    IF limit # None /\ limit[1] < 0
    THEN [videos |-> <<>>, cache |-> c, raised |-> FALSE]
    ELSE PullVideos(concat_page_items(playlistItems_list(listing), 0), None, c, r,
                    IF limit = None THEN NoLimit ELSE limit[1], <<>>)

\* update_video, before the request is sent: update_deep(video, body) on the cached
\* video, when the id is cached
CacheAfterUpdate(c, video_id, title) ==
    IF video_id \in DOMAIN c
    THEN DictSet(c, video_id, [c[video_id] EXCEPT !.title = title])
    ELSE c

\* client.videos().update(...).execute(), when the platform accepts it
RemoteAfterUpdate(r, video_id, title) == [r EXCEPT ![video_id].title = title]

----------------------------------------------------------------------------
(* publish_videos.py *)

DESCRIPTION_CREDIT == "Published with TAPAS: https://github.com/wecsam/tapas"

\* get_clip_description: the pieces the description is concatenated from
get_clip_description(clip, suppress_credit) ==
    IF suppress_credit THEN <<clip.description>>
    ELSE IF clip.description # "" THEN <<clip.description, "\n\n", DESCRIPTION_CREDIT>>
    ELSE <<DESCRIPTION_CREDIT>>

\* "for clip in read_clips(csv_path): clips[clip.get_expected_youtube_title()] = clip"
RECURSIVE BuildClips(_, _)
BuildClips(cs, od) ==
    IF cs = <<>> THEN od
    ELSE BuildClips(Tail(cs), OdSet(od, get_expected_youtube_title(Head(cs)), Head(cs)))

\* (mutant) only a video that is still processing is passed over
NotDoneProcessingMutant(video) == video.status = "processing"

\* the test "video['processingDetails']['processingStatus'] != 'succeeded'"
NotDoneProcessing(video) == video.status # "succeeded"

\* (mutant) every title is recorded with the id that was recorded first
RECURSIVE DiscoverMutant(_, _)
DiscoverMutant(videos, up) ==
    IF videos = <<>> THEN up
    ELSE DiscoverMutant(Tail(videos),
                        IF NotDoneProcessing(Head(videos)) THEN up
                        ELSE DictSet(up, Head(videos).title,
                                     IF DOMAIN up = {} THEN Head(videos).id
                                     ELSE up[CHOOSE t \in DOMAIN up : TRUE]))

\* the loop over uploaded_videos: uploaded[title] = id for each video done processing
RECURSIVE Discover(_, _)
Discover(videos, up) ==
    IF videos = <<>> THEN up
    ELSE Discover(Tail(videos),
                  IF NotDoneProcessing(Head(videos)) THEN up
                  ELSE DictSet(up, Head(videos).title, Head(videos).id))

\* "video_id = uploaded.get(clip.name); if video_id: ... continue"
IsAlreadyRenamedMutant(up, title, clip) == title \notin DOMAIN up /\ clip.name \in DOMAIN up

IsAlreadyRenamed(up, title, clip) == clip.name \in DOMAIN up

\* (mutant) the response without an id is passed over and the walk goes on
AfterPprintMutant == "walk"

\* "pprint(result); return": pprint is the module (import pprint), and calling it
\* raises TypeError, so the pass ends by the exception
AfterPprint == "crashed"

UpdateCall(index, video_id, clip) ==
    [op |-> "update", index |-> index, id |-> video_id, title |-> clip.name,
     description |-> get_clip_description(clip, params.suppress_credit)]

InsertCall(index, video_id) ==
    [op |-> "insert", index |-> index, id |-> video_id, title |-> <<>>,
     description |-> <<>>]

NoStep == [kind |-> "none", index |-> 0, calls_before |-> 0]

\* the getter's fields that publish_videos does not keep between calls
getter_locals == <<initial_cache, input_ids, ids_to_get, videos_to_return_values_iter,
                   yielded, fetches, vg_status, last_call>>

reader_locals == <<this_row, rows_read, clip_rows, rc_status, last_pair>>

\* __del__ writes the cache file when the client is collected: at once when
\* publish_videos returns; after an exception, at interpreter exit, where it may fail
Flush(by_exception) ==
    IF by_exception THEN \E written \in BOOLEAN :
                             cache_file' = IF written THEN cache' ELSE cache_file
    ELSE cache_file' = cache'

\* lines 34-36: the whole playlist that was named, or else the newest
\* len(clips) + scan_more_uploads videos of the uploads playlist
ScanLimit(n_clips) ==
    IF params.uploads_playlist_id # "" THEN None
    ELSE Some(n_clips + params.scan_more_uploads)

\* lines 26-53: the Clips are read, the client is made and the candidates are scanned
StartRun ==
    /\ pc = "start"
    /\ clips' = read_clips(params.csv_rows)
    /\ pub_clips' = BuildClips(clips', <<>>)
    /\ LET got == get_playlist_videos(uploads_listing, ScanLimit(Len(pub_clips')),
                                      cache_file, remote)
       IN  /\ cache' = got.cache
           /\ uploaded' = Discover(got.videos, <<>>)
           /\ pc' = IF got.raised THEN "crashed" ELSE "walk"
           /\ anomaly' = (anomaly \/ got.raised)
           /\ IF got.raised THEN Flush(TRUE) ELSE cache_file' = cache_file
    /\ walk_index' = 1
    /\ last_step' = NoStep
    /\ UNCHANGED <<remote, uploads_listing, target_playlist, params, run, calls>>
    /\ UNCHANGED <<getter_locals, reader_locals, past_calls, page_vars>>

WalkTitle == pub_clips[walk_index][1]
WalkClip == pub_clips[walk_index][2]
InWalk == pc = "walk" /\ walk_index <= Len(pub_clips)

\* lines 57-60: a video carries the Clip's name
AlreadyRenamed ==
    /\ InWalk
    /\ IsAlreadyRenamed(uploaded, WalkTitle, WalkClip)
    /\ walk_index' = walk_index + 1
    /\ last_step' = [kind |-> "already", index |-> walk_index, calls_before |-> Len(calls)]
    /\ UNCHANGED <<remote, cache, cache_file, uploads_listing, target_playlist, params,
                   pub_clips, uploaded, pc, run, calls, anomaly, clips>>
    /\ UNCHANGED <<getter_locals, reader_locals, past_calls, page_vars>>

\* (mutant) the walk goes on with the next Clip, as if by "continue"
NotUploadedMutant ==
    /\ InWalk
    /\ ~IsAlreadyRenamed(uploaded, WalkTitle, WalkClip)
    /\ WalkTitle \notin DOMAIN uploaded
    /\ walk_index' = walk_index + 1
    /\ last_step' = [kind |-> "unresolved", index |-> walk_index,
                     calls_before |-> Len(calls)]
    /\ UNCHANGED <<remote, cache, cache_file, uploads_listing, target_playlist, params,
                   pub_clips, uploaded, pc, run, calls, anomaly, clips>>
    /\ UNCHANGED <<getter_locals, reader_locals, past_calls, page_vars>>

\* lines 62-65: no video carries the expected title: break, and the function returns
NotUploaded ==
    /\ InWalk
    /\ ~IsAlreadyRenamed(uploaded, WalkTitle, WalkClip)
    /\ WalkTitle \notin DOMAIN uploaded
    /\ pc' = "done"
    /\ last_step' = [kind |-> "unresolved", index |-> walk_index,
                     calls_before |-> Len(calls)]
    /\ UNCHANGED cache
    /\ Flush(FALSE)
    /\ UNCHANGED <<remote, uploads_listing, target_playlist, params, pub_clips, uploaded,
                   walk_index, run, calls, anomaly, clips>>
    /\ UNCHANGED <<getter_locals, reader_locals, past_calls, page_vars>>

CanRename ==
    /\ InWalk
    /\ ~IsAlreadyRenamed(uploaded, WalkTitle, WalkClip)
    /\ WalkTitle \in DOMAIN uploaded

\* lines 67-91: both calls answer with an id
Publish ==
    /\ CanRename
    /\ LET video_id == uploaded[WalkTitle]
       IN  /\ cache' = CacheAfterUpdate(cache, video_id, WalkClip.name)
           /\ remote' = RemoteAfterUpdate(remote, video_id, WalkClip.name)
           /\ target_playlist' = Append(target_playlist, video_id)
           /\ calls' = calls \o <<UpdateCall(walk_index, video_id, WalkClip),
                                  InsertCall(walk_index, video_id)>>
    /\ walk_index' = walk_index + 1
    /\ last_step' = [kind |-> "published", index |-> walk_index, calls_before |-> Len(calls)]
    /\ UNCHANGED <<cache_file, uploads_listing, params, pub_clips, uploaded, pc, run,
                   anomaly, clips>>
    /\ UNCHANGED <<getter_locals, reader_locals, past_calls, page_vars>>

\* lines 68-83: the update request raises, or its response has no id
UpdateFails ==
    /\ CanRename
    /\ \E response \in {"raises", "no id"} :
          /\ pc' = IF response = "raises" THEN "crashed" ELSE AfterPprint
          /\ last_step' = [kind |-> "update " \o response, index |-> walk_index,
                           calls_before |-> Len(calls)]
    /\ LET video_id == uploaded[WalkTitle]
       IN  /\ cache' = CacheAfterUpdate(cache, video_id, WalkClip.name)
           /\ calls' = Append(calls, UpdateCall(walk_index, video_id, WalkClip))
    /\ anomaly' = TRUE
    /\ Flush(pc' = "crashed")
    /\ UNCHANGED <<remote, uploads_listing, target_playlist, params, pub_clips, uploaded,
                   walk_index, run, clips>>
    /\ UNCHANGED <<getter_locals, reader_locals, past_calls, page_vars>>

\* lines 85-89: the update is done; the insert request raises, or its response has no id
InsertFails ==
    /\ CanRename
    /\ \E response \in {"raises", "no id"} :
          /\ pc' = IF response = "raises" THEN "crashed" ELSE AfterPprint
          /\ last_step' = [kind |-> "insert " \o response, index |-> walk_index,
                           calls_before |-> Len(calls)]
    /\ LET video_id == uploaded[WalkTitle]
       IN  /\ cache' = CacheAfterUpdate(cache, video_id, WalkClip.name)
           /\ remote' = RemoteAfterUpdate(remote, video_id, WalkClip.name)
           /\ calls' = calls \o <<UpdateCall(walk_index, video_id, WalkClip),
                                  InsertCall(walk_index, video_id)>>
    /\ anomaly' = TRUE
    /\ Flush(pc' = "crashed")
    /\ UNCHANGED <<uploads_listing, target_playlist, params, pub_clips, uploaded,
                   walk_index, run, clips>>
    /\ UNCHANGED <<getter_locals, reader_locals, past_calls, page_vars>>

\* the loop over clips.items() is exhausted: the function returns
WalkEnd ==
    /\ pc = "walk"
    /\ walk_index > Len(pub_clips)
    /\ pc' = "done"
    /\ UNCHANGED cache
    /\ Flush(FALSE)
    /\ UNCHANGED <<remote, uploads_listing, target_playlist, params, pub_clips, uploaded,
                   walk_index, run, calls, anomaly, last_step, clips>>
    /\ UNCHANGED <<getter_locals, reader_locals, past_calls, page_vars>>

\* publish_videos is run again: YouTubeAPIClient.__init__ loads the cache file
NextRun ==
    /\ pc \in {"done", "crashed"}
    /\ run < MaxRuns
    /\ run' = run + 1
    /\ pc' = "start"
    /\ cache' = cache_file
    /\ calls' = <<>>
    /\ past_calls' = past_calls \o calls
    /\ pub_clips' = <<>>
    /\ uploaded' = <<>>
    /\ walk_index' = 0
    /\ last_step' = NoStep
    /\ UNCHANGED <<remote, cache_file, uploads_listing, target_playlist, params, anomaly,
                   clips>>
    /\ UNCHANGED <<getter_locals, reader_locals, page_vars>>

PublishNext ==
    \/ StartRun
    \/ AlreadyRenamed
    \/ NotUploaded
    \/ Publish
    \/ UpdateFails
    \/ InsertFails
    \/ WalkEnd
    \/ NextRun

----------------------------------------------------------------------------
(* The edit logs, platforms and caches publish_videos is run on *)

PubFile == <<"a", "_", "b", ".", "m">>

PubInpoints == <<"5", "0:10", "20", "30">>

\* the expected upload title of the k-th Clip of the file
PubTitle(k) ==
    get_expected_youtube_title(
        Clip(PubFile, parse_timecode(PubInpoints[k])[1],
             parse_timecode(PubInpoints[k + 1])[1], <<>>, ""))

\* the names a row may give its Clip: a name of its own, the name of the row
\* before it, and for the first row the expected upload title of the second Clip
PubNames(k) ==
    {<<"n", DigitChars[k + 1]>>}
    \cup (IF k = 1 THEN {PubTitle(2)} ELSE {<<"n", DigitChars[k]>>})

\* the log of one file-run whose rows carry the given names, and its closing row
PubLog(names) ==
    [i \in 1..(Len(names) + 1) |->
        Row("", PubFile, PubInpoints[i], IF i <= Len(names) THEN names[i] ELSE <<>>,
            NoKey)]

OtherFile2 == <<"c", ".", "m">>

PubRow(skip, file, inpoint, name) == Row(skip, file, inpoint, name, NoKey)

\* a file-run with a skipped row, after which the inpoints start again
SkipLog ==
    <<PubRow("", PubFile, "5", <<"n", "2">>), PubRow("y", PubFile, "0:10", <<>>),
      PubRow("", PubFile, "5", <<"n", "1">>), PubRow("", PubFile, "0:10", <<>>)>>

\* two file-runs of the same File about a run of another File
TwoRunsLog ==
    <<PubRow("", PubFile, "5", <<"n", "1">>), PubRow("", PubFile, "0:10", <<>>),
      PubRow("", OtherFile2, "5", <<>>),
      PubRow("", PubFile, "5", <<"n", "2">>), PubRow("", PubFile, "0:10", <<>>)>>

PubLogs ==
    {PubLog(names) :
        names \in {n \in SeqsUpTo(UNION {PubNames(k) : k \in 1..MaxClips}, MaxClips) :
                      \A k \in 1..Len(n) : n[k] \in PubNames(k)}}
    \cup {SkipLog, TwoRunsLog}

PubVideoIds == {1, 2}

PubVideoTitles == {PubTitle(1), PubTitle(2), <<"n", "1">>}

PubRemotes ==
    {r \in [PubVideoIds ->
              {Entry(id, title, status) :
                  id \in PubVideoIds, title \in PubVideoTitles,
                  status \in {"processing", "succeeded", "failed"}}] :
        \A id \in PubVideoIds : r[id].id = id}

\* nothing cached, every video cached as it is, or video 1 cached while processing
PubCaches(r) ==
    {<<>>, r, [r EXCEPT ![1].status = "processing"]}

\* the playlist lists each video once, or lists video 1 a second time
PubListings == {<<1, 2>>, <<1, 2, 1>>}

PubParams ==
    {[csv_rows |-> log, uploads_playlist_id |-> pl, scan_more_uploads |-> more,
      suppress_credit |-> FALSE] :
        log \in PubLogs,
        pl \in {"", "PL"},
        more \in {0, 1}}

PublishInit ==
    /\ params \in {q \in PubParams : q.uploads_playlist_id = "" \/ q.scan_more_uploads = 0}
    /\ remote \in PubRemotes
    /\ cache_file \in PubCaches(remote)
    /\ uploads_listing \in PubListings
    /\ cache = <<>>
    /\ target_playlist = <<>>
    /\ pub_clips = <<>>
    /\ uploaded = <<>>
    /\ walk_index = 0
    /\ pc = "start"
    /\ run = 1
    /\ calls = <<>>
    /\ past_calls = <<>>
    /\ anomaly = FALSE
    /\ last_step = NoStep
    /\ clips = <<>>

----------------------------------------------------------------------------
(* concat_page_items driven request by request *)

PageTokens == 0..MaxPageToken

\* the loop is cut off after this many requests; a walk that ends needs at most one
\* request per page token
MaxRequests == MaxPageToken + 2

\* the items of the page behind a token: none, one or two, told apart by the token
PageItemSeqs(t) == {<<>>, <<<<t, 1>>>>, <<<<t, 1>>, <<t, 2>>>>}

\* get_request(token).execute() for every token: any chain of pages, also one that
\* comes back to a page it has left
PagedRemotes ==
    {r \in [PageTokens -> [items : UNION {PageItemSeqs(t) : t \in PageTokens},
                           nextPageToken : PageTokens]] :
        \A t \in PageTokens : r[t].items \in PageItemSeqs(t)}

PagesInit ==
    /\ pages \in PagedRemotes
    /\ page_token = 0
    /\ page_items = <<>>
    /\ requests = <<>>
    /\ cp_status = "running"

\* (mutant) the loop returns after every page
NoNextPageMutant(result) == TRUE

\* "if not next_page_token"
NoNextPage(result) == result.nextPageToken = 0

\* one iteration of "while True": the request, the items of the page, the token
RequestPage ==
    /\ cp_status = "running"
    /\ Len(requests) < MaxRequests
    /\ LET result == pages[page_token]
       IN  /\ requests' = Append(requests, page_token)
           /\ page_items' = page_items \o result.items
           /\ page_token' = result.nextPageToken
           /\ cp_status' = IF NoNextPage(result) THEN "returned" ELSE "running"
    /\ UNCHANGED pages
    /\ UNCHANGED <<gvars, cvars, pvars>>

PagesNext == RequestPage

PagesIdle ==
    /\ pages = <<>>
    /\ page_token = 0
    /\ page_items = <<>>
    /\ requests = <<>>
    /\ cp_status = "idle"

----------------------------------------------------------------------------
(* Specifications *)

GetterLocalsIdle ==
    /\ initial_cache = <<>>
    /\ input_ids = <<>>
    /\ ids_to_get = <<>>
    /\ videos_to_return_values_iter = None
    /\ yielded = <<>>
    /\ fetches = <<>>
    /\ vg_status = "idle"
    /\ last_call = [kind |-> "none", fetched |-> None, yielded_before |-> 0]

GetterIdle ==
    /\ remote = <<>>
    /\ cache = <<>>
    /\ GetterLocalsIdle

ReaderLocalsIdle ==
    /\ this_row = None
    /\ rows_read = 0
    /\ clip_rows = <<>>
    /\ rc_status = "idle"
    /\ last_pair = NoPair

ClipsIdle ==
    /\ clips = <<>>
    /\ ReaderLocalsIdle

PublishIdle ==
    /\ cache_file = <<>>
    /\ uploads_listing = <<>>
    /\ target_playlist = <<>>
    /\ params = <<>>
    /\ pub_clips = <<>>
    /\ uploaded = <<>>
    /\ walk_index = 0
    /\ pc = "idle"
    /\ run = 0
    /\ calls = <<>>
    /\ past_calls = <<>>
    /\ anomaly = FALSE
    /\ last_step = NoStep

\* the catalog cache alone
GetterSpecInit == GetterInit /\ ClipsIdle /\ PublishIdle /\ PagesIdle

GetterSpec == GetterSpecInit /\ [][GetterNext]_vars

\* the clip derivation alone
ClipsSpecInit == ClipsInit /\ GetterIdle /\ PublishIdle /\ PagesIdle

ClipsSpec == ClipsSpecInit /\ [][ClipsNext]_vars

\* publish_videos, run MaxRuns times in succession
PublishSpecInit == PublishInit /\ GetterLocalsIdle /\ ReaderLocalsIdle /\ PagesIdle

PublishSpec == PublishSpecInit /\ [][PublishNext]_vars

\* concat_page_items alone; the consumer takes every item, so the loop goes on
\* while it can
PagesSpecInit == PagesInit /\ GetterIdle /\ ClipsIdle /\ PublishIdle

PagesSpec == PagesSpecInit /\ [][PagesNext]_vars /\ WF_vars(RequestPage)

----------------------------------------------------------------------------
(* Claims about the catalog cache *)

IdsOf(entries) == [i \in 1..Len(entries) |-> entries[i].id]

IsDistinct(s) == \A i, j \in 1..Len(s) : i # j => s[i] # s[j]

RemoteHasAll == Range(input_ids) \subseteq DOMAIN remote

NoneCachedTerminal ==
    \A id \in Range(input_ids) : ~IsTerminal(walk_dict(initial_cache, id))

AllCachedTerminal ==
    \A id \in Range(input_ids) :
        id \in DOMAIN initial_cache /\ initial_cache[id].status \notin {"", "processing"}

\* C1: when the remote holds every requested id, the ids of the yielded entries are
\* the input id sequence, also when an id occurs more than once in the input.
C1_YieldedIdsEqualInput ==
    (RemoteHasAll /\ vg_status = "stopped") => IdsOf(yielded) = input_ids

\* C3: n distinct ids, none cached with a terminal status, all on the remote: when the
\* getter is exhausted it has issued ceil(n/50) fetches, each of at most 50 ids and each
\* but the last of exactly 50, and has yielded the n entries in input order; no fetch
\* made on the way requests more than 50 ids.
C3_BatchedFetches ==
    (IsDistinct(input_ids) /\ NoneCachedTerminal /\ RemoteHasAll) =>
        /\ \A k \in 1..Len(fetches) :
               /\ Len(fetches[k]) <= 50
               /\ k < Len(fetches) => Len(fetches[k]) = 50
               /\ fetches[k] = SubSeq(input_ids, 50 * (k - 1) + 1,
                                      50 * (k - 1) + Len(fetches[k]))
        /\ vg_status # "raised"
        /\ vg_status = "stopped" =>
               /\ Len(fetches) = (Len(input_ids) + 49) \div 50
               /\ IdsOf(yielded) = input_ids

C3_Witness ==
    /\ IsDistinct(input_ids) /\ NoneCachedTerminal /\ RemoteHasAll
    /\ vg_status = "stopped"
    /\ Len(input_ids) = 120
    /\ [k \in 1..Len(fetches) |-> Len(fetches[k])] = <<50, 50, 20>>
    /\ IdsOf(yielded) = input_ids

\* C4: when every input id is cached with a terminal status, no fetch is ever issued
\* and the cached entries are yielded in input order, all of them once the getter is
\* exhausted; for the empty input nothing is yielded and nothing is fetched.
C4_AllCachedNoFetch ==
    AllCachedTerminal =>
        /\ fetches = <<>>
        /\ vg_status # "raised"
        /\ Len(yielded) <= Len(input_ids)
        /\ \A i \in 1..Len(yielded) : yielded[i] = initial_cache[input_ids[i]]
        /\ vg_status = "stopped" => Len(yielded) = Len(input_ids)

C4_Witness ==
    /\ AllCachedTerminal
    /\ vg_status = "stopped"
    /\ Len(input_ids) >= 3
    /\ ~IsDistinct(input_ids)
    /\ \E id \in Range(input_ids) : initial_cache[id].status = "failed"
    /\ Len(yielded) = Len(input_ids)
    /\ fetches = <<>>

\* C5: when the fetch of a batch returns no entry for an id of the batch, that call of
\* __next__ raises the unknown-video-id error and yields nothing: no entry buffered
\* for the batch reaches the caller.
BatchHasUnknownId ==
    /\ last_call.fetched # None
    /\ \E id \in Range(last_call.fetched[1]) : id \notin DOMAIN remote

C5_UnknownIdRaises ==
    BatchHasUnknownId =>
        /\ last_call.kind = "error"
        /\ vg_status = "raised"
        /\ Len(yielded) = last_call.yielded_before
        /\ videos_to_return_values_iter = None

\* the batch holds an unknown id, and a cached hit was buffered behind it
C5_Witness ==
    /\ BatchHasUnknownId
    /\ vg_status = "raised"
    /\ \E i \in 1..Len(input_ids) :
           /\ IsTerminal(walk_dict(initial_cache, input_ids[i]))
           /\ i > last_call.yielded_before + 1
           /\ i <= Len(input_ids) - Len(ids_to_get)

\* the ids the call at hand consumes from the input
Consumed == SubSeq(ids_to_get, 1, Len(ids_to_get) - Len(ids_to_get'))

\* the id is not cached, or it is cached without a processing status or as processing
NeedsFetch(id) == id \notin DOMAIN cache \/ cache[id].status \in {"", "processing"}

\* C21: the ids a call of __next__ sends to the remote are, in order, exactly the
\* ids it consumes that are not cached or are cached without a status or as
\* processing (no fetch when there is none); and when the call returns, every entry
\* the fetch returned is the cache entry of its id, and so is the entry handed out
C21_FetchedIffNotCachedTerminal ==
    [][vg_status = "active" =>
        LET need == SelectSeq(Consumed, NeedsFetch)
        IN  /\ fetches' = IF need = <<>> THEN fetches ELSE Append(fetches, need)
            /\ \A id \in Range(need) \cap DOMAIN remote :
                  id \in DOMAIN cache' /\ cache'[id] = remote[id]
            /\ \A id \in DOMAIN cache :
                  id \notin Range(need) => (id \in DOMAIN cache' /\ cache'[id] = cache[id])
            /\ (need # <<>> /\ yielded' # yielded) =>
                  LET video == yielded'[Len(yielded')]
                  IN  cache'[video.id] = video]_vars

\* the ids 1, 2 were consumed by one call, 1 cached as processing and 2 cached with a
\* terminal status: 1 alone was fetched, its fetched entry is cached and handed out
C21_Witness ==
    /\ input_ids = <<1, 2>>
    /\ {1, 2} \subseteq DOMAIN initial_cache
    /\ initial_cache[1].status = "processing"
    /\ IsTerminal(initial_cache[2].status)
    /\ fetches = <<<<1>>>>
    /\ last_call.fetched = Some(<<1>>)
    /\ cache[1] = remote[1]
    /\ cache[2] = initial_cache[2]
    /\ yielded = <<remote[1]>>
    /\ ids_to_get = <<>>

----------------------------------------------------------------------------
(* Claims about the clip derivation *)

\* a step of read_clips that examines the pair (this_row, this_row')
PairStep == rows_read >= 1 /\ rows_read' = rows_read + 1

Parsable(row) == row.Inpoint # "" /\ parse_timecode(row.Inpoint) # None

Seconds(row) == parse_timecode(row.Inpoint)[1]

Increasing(this, next) ==
    /\ Parsable(this) /\ Parsable(next)
    /\ ~Seconds(this).nan /\ ~Seconds(next).nan
    /\ Seconds(this).ms < Seconds(next).ms

NotIncreasing(this, next) ==
    /\ Parsable(this) /\ Parsable(next)
    /\ ~Seconds(this).nan /\ ~Seconds(next).nan
    /\ Seconds(this).ms >= Seconds(next).ms

ClipOfPair(this, next) ==
    Clip(this.File, Seconds(this), Seconds(next), this.Name,
         IF this.Description = NoKey THEN "" ELSE this.Description)

ClipPair(this, next) ==
    this.File = next.File /\ Increasing(this, next) /\ this.Name # <<>>

\* C6 as stated: a pair of adjacent rows with equal File, parsable increasing inpoints
\* and a Name on the first row yields exactly one Clip, made of the first row's
\* inpoint, name and description and of the second row's inpoint.
C6_PairYieldsClip ==
    [][(PairStep /\ ClipPair(this_row[1], this_row'[1])) =>
           clips' = Append(clips, ClipOfPair(this_row[1], this_row'[1]))]_vars

\* C6 as amended: the same, for a first row whose Skip is not set and whose File is
\* not empty, when the scan reaches the pair.
C6_UnskippedPairYieldsClip ==
    [][(/\ PairStep
        /\ ClipPair(this_row[1], this_row'[1])
        /\ this_row[1].Skip = ""
        /\ this_row[1].File # <<>>) =>
           /\ clips' = Append(clips, ClipOfPair(this_row[1], this_row'[1]))
           /\ clip_rows' = Append(clip_rows, rows_read)
           /\ rc_status' = "reading"]_vars

\* rows a/5/n, a/0:10/..: the Clip (a, 5, 10, n, "")
C6_Witness ==
    /\ last_pair.kind = "clip"
    /\ clips = <<Clip(<<"a">>, Float(5000), Float(10000), <<"n">>, "")>>
    /\ clip_rows = <<1>>
    /\ rows_read = 2

\* a row that is malformed by its own fields or by its interval
Malformed(this, next) ==
    \/ this.File = <<>>
    \/ ~Parsable(this)
    \/ NotIncreasing(this, next)
    \/ this.Name = <<>>

\* a row the scan reports: not skipped, and without File, or with the File of the
\* next row and an Inpoint missing or unparsable on either row, an inpoint >= the
\* outpoint, or no Name
Reported(this, next) ==
    /\ this.Skip = ""
    /\ \/ this.File = <<>>
       \/ /\ this.File = next.File
          /\ \/ ~Parsable(this)
             \/ ~Parsable(next)
             \/ NotIncreasing(this, next)
             \/ this.Name = <<>>

HaltedForGood == rc_status = "halted" => (clips' = clips /\ rc_status' = "halted")

\* C7 as stated: a row with a missing File, a missing or unparsable Inpoint, a
\* non-increasing interval or a missing Name halts read_clips: no Clip is produced for
\* it or for any row after it.
C7_MalformedRowHalts ==
    [][/\ (PairStep /\ Malformed(this_row[1], this_row'[1])) =>
              (rc_status' = "halted" /\ clips' = clips)
       /\ HaltedForGood]_vars

\* C7 as amended: a row that the scan reports halts read_clips: no Clip is produced
\* for it or for any row after it.
C7_ReportedRowHalts ==
    [][/\ (PairStep /\ Reported(this_row[1], this_row'[1])) =>
              (rc_status' = "halted" /\ clips' = clips /\ last_pair'.kind = "error")
       /\ HaltedForGood]_vars

\* the scan stopped at a row without Name, after a Clip was yielded
C7_Witness ==
    /\ rc_status = "halted"
    /\ last_pair.error = "Name missing"
    /\ Len(clips) = 1
    /\ rows_read = 3

\* C8: a row with Skip set, met as the first row of a pair, yields no Clip and does
\* not stop the scan, whatever its other fields hold.
C8_SkipRowYieldsNothing ==
    [][(PairStep /\ this_row[1].Skip # "") =>
           /\ clips' = clips
           /\ clip_rows' = clip_rows
           /\ rc_status' = "reading"]_vars

\* a skipped row was passed after a Clip, and the scan goes on
C8_Witness ==
    /\ last_pair.kind = "skip"
    /\ rc_status = "reading"
    /\ Len(clips) = 1
    /\ rows_read = 3

\* C9: the last row of a file-run yields no Clip: not a row followed by a row of
\* another File, and not the final row of the log (a Clip comes from a row only
\* after the row behind it was read).
C9_LastRowOfRunYieldsNothing ==
    /\ [](\A k \in 1..Len(clip_rows) : clip_rows[k] < rows_read)
    /\ [][(PairStep /\ this_row[1].File # this_row'[1].File) =>
              (clips' = clips /\ clip_rows' = clip_rows)]_vars

\* the log ended after a run of one Clip and a row of another file
C9_Witness ==
    /\ last_pair.kind = "other file"
    /\ rc_status = "exhausted"
    /\ clip_rows = <<1>>
    /\ rows_read = 3

\* C23: a row that is not skipped and has a File, followed by a row of another
\* File, yields no Clip and does not halt the derivation, whatever its Inpoint and
\* Name hold (missing, unparsable or valid); the next pair starts at the row
\* that followed it.
C23_RunBoundaryNeverAborts ==
    [][(/\ PairStep
        /\ this_row[1].Skip = ""
        /\ this_row[1].File # <<>>
        /\ this_row[1].File # this_row'[1].File) =>
           /\ clips' = clips
           /\ clip_rows' = clip_rows
           /\ rc_status' = "reading"
           /\ last_pair'.kind = "other file"
           /\ last_pair'.error = ""]_vars

\* a row of file a was followed by a row of file b at the start of the log, and
\* the scan stands at that row of file b with nothing yielded
C23_Witness ==
    /\ last_pair.kind = "other file"
    /\ rc_status = "reading"
    /\ rows_read = 2
    /\ clips = <<>>
    /\ this_row[1].File = <<"b">>
    /\ this_row[1].Skip = ""

\* C12: every Clip that read_clips yields has inpoint < outpoint strictly, a file
\* and a name that are not empty, the inpoint of the row that supplied it and, as
\* its outpoint, the parsed Inpoint of the row that follows that row
C12_ClipInvariants ==
    /\ [](\A k \in 1..Len(clips) :
            /\ FloatLt(clips[k].inpoint, clips[k].outpoint)
            /\ clips[k].file # <<>>
            /\ clips[k].name # <<>>)
    /\ [][(PairStep /\ clips' # clips) =>
            /\ Parsable(this_row[1]) /\ Parsable(this_row'[1])
            /\ clips'[Len(clips')].inpoint = Seconds(this_row[1])
            /\ clips'[Len(clips')].outpoint = Seconds(this_row'[1])]_vars

----------------------------------------------------------------------------
(* Claims about publish_videos *)

\* the mutating calls issued for the Clip at position i of the walk
CallsFor(i) == {k \in 1..Len(calls) : calls[k].index = i}

\* C2: when publish_videos is run a second time, after a first run that ended
\* without an anomaly, on the remote as the first run left it and with the cache
\* file the first run wrote, the second run issues no videos.update and no
\* playlistItems.insert
C2_SecondRunIssuesNoCalls == (run >= 2 /\ ~anomaly) => calls = <<>>

\* C10: a Clip whose name is the title of a discovered video is passed over: the
\* step that handles it issues no call, changes neither the remote nor the target
\* playlist, and leaves the walk at the next Clip; and no call of the run is for
\* such a Clip
C10_AlreadyTitledClipSkipped ==
    /\ [](pc \in {"walk", "done", "crashed"} =>
            \A i \in 1..Len(pub_clips) :
                pub_clips[i][2].name \in DOMAIN uploaded => CallsFor(i) = {})
    /\ [][(InWalk /\ WalkClip.name \in DOMAIN uploaded) =>
            /\ calls' = calls
            /\ remote' = remote
            /\ target_playlist' = target_playlist
            /\ pc' = "walk"
            /\ walk_index' = walk_index + 1]_vars

\* a Clip has been passed over though a video with its expected upload title was
\* discovered as well, and the walk stands at the next Clip
C10_Witness ==
    /\ pc = "walk"
    /\ last_step.kind = "already"
    /\ walk_index = last_step.index + 1
    /\ pub_clips[last_step.index][2].name \in DOMAIN uploaded
    /\ pub_clips[last_step.index][1] \in DOMAIN uploaded
    /\ CallsFor(last_step.index) = {}
    /\ Len(calls) = last_step.calls_before

\* C11: within one pass no video id is the target of two calls of the same kind:
\* at most one videos.update and at most one playlistItems.insert per video id
C11_OneCallPerVideoAndKind ==
    pc \in {"walk", "done", "crashed"} =>
        \A j, k \in 1..Len(calls) :
            (j < k /\ calls[j].op = calls[k].op) => calls[j].id # calls[k].id

\* two videos were renamed in one pass whose playlist lists a video twice
C11_Witness ==
    /\ uploads_listing = <<1, 2, 1>>
    /\ \E j, k \in 1..Len(calls) :
          j < k /\ calls[j].op = "update" /\ calls[k].op = "update"

\* the Clip at position i has no discovered video under its name or its expected title
Unresolved(i) ==
    /\ pub_clips[i][2].name \notin DOMAIN uploaded
    /\ pub_clips[i][1] \notin DOMAIN uploaded

HasUnresolved == \E i \in 1..Len(pub_clips) : Unresolved(i)

FirstUnresolved ==
    CHOOSE i \in 1..Len(pub_clips) : Unresolved(i) /\ \A j \in 1..(i - 1) : ~Unresolved(j)

\* C14: the walk stops at the first Clip that has no discovered video under its name
\* or its expected title: the walk never passes it, no call of the pass is for it or
\* for a later Clip, and the step that reaches it ends the pass without a call
C14_WalkStopsAtFirstUnresolved ==
    /\ []((pc \in {"walk", "done", "crashed"} /\ HasUnresolved) =>
            /\ walk_index <= FirstUnresolved
            /\ \A k \in 1..Len(calls) : calls[k].index < FirstUnresolved)
    /\ [][(InWalk /\ Unresolved(walk_index)) =>
            /\ pc' = "done"
            /\ calls' = calls
            /\ remote' = remote
            /\ target_playlist' = target_playlist]_vars
    /\ [][(pc = "done" /\ run' = run) => calls' = calls]_vars

\* the walk has stopped at an unresolved Clip though the upload of a later Clip was
\* discovered, and no call was issued for that later Clip
C14_Witness ==
    /\ pc = "done"
    /\ last_step.kind = "unresolved"
    /\ last_step.index = FirstUnresolved
    /\ \E j \in (last_step.index + 1)..Len(pub_clips) :
          pub_clips[j][1] \in DOMAIN uploaded /\ CallsFor(j) = {}

\* C13: no two Clips that one run of read_clips yields have the same
\* (file, inpoint, outpoint); clips holds what the run at the start of the pass yielded
C13_UniqueTriples ==
    \A j, k \in 1..Len(clips) :
        j < k => <<clips[j].file, clips[j].inpoint, clips[j].outpoint>>
                 # <<clips[k].file, clips[k].inpoint, clips[k].outpoint>>

NoIdSteps == {"update no id", "insert no id"}

\* C15: every playlistItems.insert follows at once the videos.update for the same
\* Clip and video id; after an update that raised or whose response had no id the
\* insert is not issued; and once a response lacked an id the pass is over and issues
\* no further call
C15_UpdateThenInsertThenAbort ==
    /\ [](pc \in {"walk", "done", "crashed"} =>
            /\ \A k \in 1..Len(calls) :
                  calls[k].op = "insert" =>
                      /\ k > 1
                      /\ calls[k - 1].op = "update"
                      /\ calls[k - 1].id = calls[k].id
                      /\ calls[k - 1].index = calls[k].index
            /\ last_step.kind \in {"update no id", "update raises"} =>
                  calls[Len(calls)].op = "update"
            /\ last_step.kind \in NoIdSteps => pc # "walk")
    /\ [][(last_step.kind \in NoIdSteps /\ run' = run) => calls' = calls]_vars

\* a Clip was published, and the update for the next Clip was answered without an
\* id: the pass is over with three calls, the last of them that update
C15_Witness ==
    /\ last_step.kind = "update no id"
    /\ last_step.calls_before = 2
    /\ Len(calls) = 3
    /\ calls[3].op = "update"
    /\ pc # "walk"

\* C16: an update_video call that fails (the request raises, or its response has no
\* id) leaves the cached entry of the video as it was before the call
C16_CacheUnchangedByFailedUpdate ==
    [][(last_step' # last_step /\ last_step'.kind \in {"update no id", "update raises"}) =>
           cache' = cache]_vars

\* an earlier pass issued videos.update giving the video this title
AssignedEarlier(video_id, name) ==
    \E k \in 1..Len(past_calls) :
        /\ past_calls[k].op = "update"
        /\ past_calls[k].id = video_id
        /\ past_calls[k].title = name

\* C17: when a pass takes a Clip as already published because a video carries the
\* name that an earlier pass assigned to it, the video has that title on the remote
\* and is in the target playlist
C17_AlreadyPublishedIsPublished ==
    (pc \in {"walk", "done", "crashed"} /\ last_step.kind = "already") =>
        LET name == pub_clips[last_step.index][2].name
            video_id == uploaded[name]
        IN  AssignedEarlier(video_id, name) =>
                /\ remote[video_id].title = name
                /\ video_id \in Range(target_playlist)

\* C18: after a mutating call whose response has no id the pass has returned, not
\* ended by an exception, and the cache file holds the cache
C18_AnomalyReturnsGracefully ==
    last_step.kind \in NoIdSteps => (pc = "done" /\ cache_file = cache)

\* the scan of the pass is done and the walk has not begun: the remote and the cache
\* file are as the scan met them
JustScanned == pc = "walk" /\ last_step = NoStep

\* the candidates the scan of this pass went through
ScannedVideos ==
    get_playlist_videos(uploads_listing, ScanLimit(Len(pub_clips)), cache_file, remote).videos

\* the discovered map holds exactly the titles of the scanned candidates whose
\* status is in the given set
RecordsExactly(statuses) ==
    /\ \A i \in 1..Len(ScannedVideos) :
          ScannedVideos[i].status \in statuses => ScannedVideos[i].title \in DOMAIN uploaded
    /\ \A t \in DOMAIN uploaded :
          \E i \in 1..Len(ScannedVideos) :
              /\ ScannedVideos[i].title = t
              /\ ScannedVideos[i].id = uploaded[t]
              /\ ScannedVideos[i].status \in statuses

----------------------------------------------------------------------------
(* Claims about concat_page_items *)

\* the items of the pages behind the given tokens, in that order
RECURSIVE ItemsOfPages(_)
ItemsOfPages(tokens) ==
    IF tokens = <<>> THEN <<>>
    ELSE pages[Head(tokens)].items \o ItemsOfPages(Tail(tokens))

\* following the tokens from the given page, a page without a next token is met
RECURSIVE ChainEnds(_, _)
ChainEnds(t, fuel) ==
    \/ pages[t].nextPageToken = 0
    \/ fuel > 0 /\ ChainEnds(pages[t].nextPageToken, fuel - 1)

RemoteEndsPaging == ChainEnds(0, MaxPageToken)

\* C20: the first request carries no token and every later request the
\* nextPageToken of the response before it; the items yielded are those of the
\* requested pages in order; only the last response of a walk that has returned
\* carries no token, and nothing is requested after it; and the walk returns if and
\* only if the chain of pages reaches a page without a token
C20_PagesWalk ==
    /\ [](cp_status \in {"running", "returned"} =>
            /\ requests # <<>> => requests[1] = 0
            /\ \A k \in 2..Len(requests) :
                  requests[k] = pages[requests[k - 1]].nextPageToken
            /\ page_items = ItemsOfPages(requests)
            /\ \A k \in 1..(Len(requests) - 1) : pages[requests[k]].nextPageToken # 0
            /\ cp_status = "running" =>
                  \A k \in 1..Len(requests) : pages[requests[k]].nextPageToken # 0
            /\ cp_status = "returned" =>
                  /\ requests # <<>>
                  /\ pages[requests[Len(requests)]].nextPageToken = 0
                  /\ page_items = concat_page_items(pages, 0)
                  /\ RemoteEndsPaging)
    /\ [][cp_status = "returned" => UNCHANGED <<requests, page_items, cp_status>>]_vars
    /\ ((cp_status = "running" /\ RemoteEndsPaging) ~> cp_status = "returned")
    /\ []((cp_status = "running" /\ ~RemoteEndsPaging) => [](cp_status # "returned"))

\* a walk over three pages has returned, and it yielded items of several pages
C20_Witness ==
    /\ cp_status = "returned"
    /\ requests = <<0, 2, 1>>
    /\ Len(page_items) >= 3
    /\ page_items[1][1] # page_items[Len(page_items)][1]

----------------------------------------------------------------------------
(* Claims about one whole pass of publish_videos *)

\* every Clip of the log has a discovered video (one done processing) under its name
\* or under its expected title
AllResolved ==
    \A k \in 1..Len(clips) :
        \/ clips[k].name \in DOMAIN uploaded
        \/ get_expected_youtube_title(clips[k]) \in DOMAIN uploaded

\* the Clips of the log that no discovered video carries the name of
ToPublish == {k \in 1..Len(clips) : clips[k].name \notin DOMAIN uploaded}

VideoOf(k) == uploaded[get_expected_youtube_title(clips[k])]

CallsOf(op, video_id) ==
    {j \in 1..Len(calls) : calls[j].op = op /\ calls[j].id = video_id}

\* C22: a pass comes to its end (in every state of the walk a step of the walk can be
\* taken, and every step goes to the next Clip or ends the pass); and when every
\* Clip of the log has a discovered video under its name or its expected title and
\* every call was answered with an id, the pass has returned, and for each Clip not
\* under its name there is exactly one update of its video, followed at once by the
\* one insert of that video, the videos of the Clips are updated in log order, and no
\* other video is called for
C22_FullPass ==
    /\ [](pc = "walk" =>
            \/ walk_index > Len(pub_clips)
            \/ IsAlreadyRenamed(uploaded, WalkTitle, WalkClip)
            \/ WalkTitle \notin DOMAIN uploaded
            \/ CanRename)
    /\ [](pc = "walk" => walk_index <= Len(pub_clips) + 1)
    /\ [][(pc = "walk" /\ pc' = "walk") => walk_index' = walk_index + 1]_vars
    /\ []((pc \in {"done", "crashed"} /\ ~anomaly /\ AllResolved) =>
            /\ pc = "done"
            /\ \A k \in ToPublish :
                  /\ Cardinality(CallsOf("update", VideoOf(k))) = 1
                  /\ Cardinality(CallsOf("insert", VideoOf(k))) = 1
                  /\ \A u \in CallsOf("update", VideoOf(k)) :
                        (u + 1) \in CallsOf("insert", VideoOf(k))
            /\ \A k1, k2 \in ToPublish :
                  (k1 < k2 /\ VideoOf(k1) # VideoOf(k2)) =>
                      \A u1 \in CallsOf("update", VideoOf(k1)) :
                          \A u2 \in CallsOf("update", VideoOf(k2)) : u1 < u2
            /\ \A j \in 1..Len(calls) : \E k \in ToPublish : calls[j].id = VideoOf(k))

----------------------------------------------------------------------------
(* Claims about the limit of the scan *)

\* the playlists that list each of their videos once, in every order
PlaylistsOfVideos ==
    {s \in SeqsUpTo(PubVideoIds, Cardinality(PubVideoIds)) :
        \A i, j \in 1..Len(s) : s[i] = s[j] => i = j}

\* no limit, a negative limit, and the limits up to one more than the videos listed
ScanLimits == {None} \cup {Some(k) : k \in (0 - 1)..(Cardinality(PubVideoIds) + 1)}

\* how many entries a limit lets through of a listing of n videos
Through(limit, n) ==
    IF limit = None THEN n
    ELSE IF limit[1] < 0 THEN 0
    ELSE IF limit[1] < n THEN limit[1] ELSE n

\* the expected titles of the Clips of the log of the pass
ExpectedTitles == {get_expected_youtube_title(clips[k]) : k \in 1..Len(clips)}

====
